---- MODULE Spec2Model ----
(***************************************************************************)
(* A model of async-jsonl: the forward line stream (Jsonl), the bounded    *)
(* windows first_n / last_n (TakeNLines, TakeNLinesReverse), the           *)
(* deserialize adaptor, and the reverse buffered line reader               *)
(* (RevBufReader).                                                         *)
(*                                                                         *)
(* Bytes are integers 0..255.  A Rust String is the sequence of its UTF-8  *)
(* bytes, so `as_bytes().len()` is Len.  Option<T> is a sequence of length *)
(* at most one: <<>> is None and <<v>> is Some(v).                         *)
(***************************************************************************)
EXTENDS Integers, Sequences, FiniteSets

VARIABLES src, phase, jsonl, rev, first, last, io

vars == <<src, phase, jsonl, rev, first, last, io>>

(***************************************************************************)
(* Bounds of the model.                                                    *)
(***************************************************************************)
\* a small source is the concatenation of at most MaxPieces pieces
MaxPieces == 5
\* RevBufReader::with_capacity is called with capacities 1..MaxCap
MaxCap == 3
\* the caller calls next_line at most MaxCalls times on one reader
MaxCalls == 5
\* first_n / last_n are called with n in 0..MaxN
MaxN == 3
\* the head of a large source is the concatenation of at most MaxHeadPieces pieces
MaxHeadPieces == 2
\* in a large source the first chunk boundary lies at most MaxCut bytes
\* before the end of the head
MaxCut == 2
\* readers that run interleaved, or over a source that fails, read a source
\* of at most MaxFewPieces pieces
MaxFewPieces == 3
\* a source that fails does so at most MaxFaults times
MaxFaults == 2
\* a source with bare CR bytes is the concatenation of at most MaxCrPieces
\* pieces
MaxCrPieces == 3
\* a source with bytes that are not UTF-8 is the concatenation of at most
\* MaxMalformedPieces pieces
MaxMalformedPieces == 3
\* the caller of a reader drops a pending next_line call at most MaxCancels
\* times
MaxCancels == 2
\* the consumer of a first_n stream that goes on polling after the end
\* polls at most MaxPolls times in all
MaxPolls == 6

(***************************************************************************)
(* Bytes.                                                                  *)
(***************************************************************************)
LF == 10
CR == 13
SP == 32
\* the text "1": a line made of digits only is a JSON number
One == <<49>>
\* U+00E9, the two bytes C3 A9
EAcute == <<195, 169>>

None == <<>>
Some(v) == <<v>>

\* what a next_line call returns when a seek or a read failed: Err(e),
\* written in the place of a line as the one number that is no byte
Err_io == <<<<256>>>>

\* U+FFFD REPLACEMENT CHARACTER, as from_utf8_lossy writes it
REPLACEMENT == <<239, 191, 189>>

Min(a, b) == IF a < b THEN a ELSE b

(***************************************************************************)
(* String::from_utf8_lossy.  The decoder copies the longest valid prefix,  *)
(* replaces the maximal invalid subpart that follows by U+FFFD and goes on *)
(* after it.                                                               *)
(***************************************************************************)
IsCont(b) == b >= 128 /\ b <= 191

\* number of bytes of the character a lead byte announces; 0: not a lead byte
Utf8Width(b) ==
    IF b < 128 THEN 1
    ELSE IF b >= 194 /\ b <= 223 THEN 2
    ELSE IF b >= 224 /\ b <= 239 THEN 3
    ELSE IF b >= 240 /\ b <= 244 THEN 4
    ELSE 0

\* the range the second byte of a character must lie in, given its lead byte
SecondOk(lead, b) ==
    IF lead = 224 THEN b >= 160 /\ b <= 191
    ELSE IF lead = 237 THEN b >= 128 /\ b <= 159
    ELSE IF lead = 240 THEN b >= 144 /\ b <= 191
    ELSE IF lead = 244 THEN b >= 128 /\ b <= 143
    ELSE IsCont(b)

\* how many bytes after position i continue the character that starts at i
ContRun(t, i) ==
    LET w == Utf8Width(t[i])
        ok(k) == /\ i + k <= Len(t)
                 /\ IF k = 1 THEN SecondOk(t[i], t[i + 1]) ELSE IsCont(t[i + k])
    IN  IF w >= 2 /\ ok(1)
        THEN IF w >= 3 /\ ok(2)
             THEN IF w >= 4 /\ ok(3) THEN 3 ELSE 2
             ELSE 1
        ELSE 0

\* index of the first non-ASCII byte of t, or Len(t) + 1
FirstNonAscii(t) ==
    IF \A i \in 1..Len(t) : t[i] < 128 THEN Len(t) + 1
    ELSE CHOOSE i \in 1..Len(t) : t[i] >= 128 /\ \A j \in 1..(i - 1) : t[j] < 128

RECURSIVE from_utf8_lossy(_)
from_utf8_lossy(t) ==
    LET i == FirstNonAscii(t)
    IN  IF i > Len(t) THEN t
        ELSE LET w == Utf8Width(t[i])
                 k == ContRun(t, i)
                 rest == from_utf8_lossy(SubSeq(t, i + k + 1, Len(t)))
             IN  IF w >= 2 /\ k = w - 1
                 THEN SubSeq(t, 1, i + k) \o rest
                 ELSE SubSeq(t, 1, i - 1) \o REPLACEMENT \o rest

\* String::from_utf8 succeeds exactly when nothing has to be replaced
IsValidUtf8(t) == from_utf8_lossy(t) = t

(***************************************************************************)
(* str::lines: the text is cut after every LF; a piece loses its final LF  *)
(* and then a CR that stood before that LF; a last piece without LF is     *)
(* returned as it is; nothing is returned after a final LF.                *)
(***************************************************************************)
NewlinePositions(t) == {i \in 1..Len(t) : t[i] = LF}

\* a lines() that leaves out a last line without terminator
str_lines_terminated(t) ==
    LET nl == NewlinePositions(t)
        start(k) == IF k = 1 THEN 1
                    ELSE 1 + CHOOSE i \in nl : Cardinality({j \in nl : j <= i}) = k - 1
        stop(k) == CHOOSE i \in nl : Cardinality({j \in nl : j <= i}) = k
        piece(k) == SubSeq(t, start(k), stop(k) - 1)
    IN  [k \in 1..Cardinality(nl) |->
            IF piece(k) # <<>> /\ piece(k)[Len(piece(k))] = CR
            THEN SubSeq(piece(k), 1, Len(piece(k)) - 1) ELSE piece(k)]

str_lines(t) ==
    LET nl == NewlinePositions(t)
        c == Cardinality(nl)
        kth(k) == CHOOSE i \in nl : Cardinality({j \in nl : j <= i}) = k
        n == IF Len(t) > 0 /\ t[Len(t)] # LF THEN c + 1 ELSE c
        start(k) == IF k = 1 THEN 1 ELSE kth(k - 1) + 1
        stop(k) == IF k > c THEN Len(t)
                   ELSE IF kth(k) - 1 >= start(k) /\ t[kth(k) - 1] = CR
                        THEN kth(k) - 2
                        ELSE kth(k) - 1
    IN  [k \in 1..n |-> SubSeq(t, start(k), stop(k))]

(***************************************************************************)
(* str::trim removes leading and trailing White_Space characters.  The     *)
(* sources of this model hold no white space outside ASCII.                *)
(***************************************************************************)
IsWhitespace(b) == (b >= 9 /\ b <= 13) \/ b = SP

\* str::trim_start in place of str::trim
str_trim_start(t) ==
    IF \A i \in 1..Len(t) : IsWhitespace(t[i]) THEN <<>>
    ELSE LET a == CHOOSE i \in 1..Len(t) :
                      ~IsWhitespace(t[i]) /\ \A j \in 1..(i - 1) : IsWhitespace(t[j])
         IN  SubSeq(t, a, Len(t))

str_trim(t) ==
    IF \A i \in 1..Len(t) : IsWhitespace(t[i]) THEN <<>>
    ELSE LET a == CHOOSE i \in 1..Len(t) :
                      ~IsWhitespace(t[i]) /\ \A j \in 1..(i - 1) : IsWhitespace(t[j])
             b == CHOOSE i \in 1..Len(t) :
                      ~IsWhitespace(t[i]) /\ \A j \in (i + 1)..Len(t) : IsWhitespace(t[j])
         IN  SubSeq(t, a, b)

\* [&str]::join("\n")
RECURSIVE join_lf(_)
join_lf(ls) ==
    IF Len(ls) = 0 THEN <<>>
    ELSE IF Len(ls) = 1 THEN ls[1]
    ELSE ls[1] \o <<LF>> \o join_lf(Tail(ls))

RECURSIVE Reverse(_)
Reverse(s) == IF s = <<>> THEN <<>> ELSE Reverse(Tail(s)) \o <<Head(s)>>

IsPrefix(p, s) == Len(p) <= Len(s) /\ SubSeq(s, 1, Len(p)) = p

(***************************************************************************)
(* Sources.  A small source is a concatenation of pieces; the pieces give  *)
(* a line content that decodes as JSON ("1"), white space, both line       *)
(* terminators and a two-byte character.                                   *)
(***************************************************************************)
Pieces == {One, <<SP>>, <<LF>>, <<CR, LF>>, EAcute}

RECURSIVE Concat(_)
Concat(ps) == IF ps = <<>> THEN <<>> ELSE Head(ps) \o Concat(Tail(ps))

SmallSources == {Concat(ps) : ps \in UNION {[1..k -> Pieces] : k \in 0..MaxPieces}}

\* TakeNLinesReverse::new reads chunks of this many bytes
chunk_size == 8192

\* A large source is longer than one chunk of last_n and one buffer of
\* RevBufReader::new: a head of at most MaxHeadPieces pieces, then white
\* space, then the final line "1" without terminator.  The first chunk read
\* from the end starts `cut` bytes before the end of the head.
Padding(len) == [i \in 1..len |-> IF i = len THEN One[1] ELSE SP]

Heads == {Concat(ps) : ps \in UNION {[1..k -> Pieces] : k \in 1..MaxHeadPieces}}

LargeSources ==
    UNION {{h \o Padding(chunk_size - cut) : cut \in 0..Min(MaxCut, Len(h) - 1)} : h \in Heads}

Sources == SmallSources \cup LargeSources

IsLarge(s) == Len(s) > chunk_size

(***************************************************************************)
(* An in-memory or file source behind AsyncRead + AsyncSeek: a read at     *)
(* `cursor` for `want` bytes gets the bytes that exist there, none at or   *)
(* beyond the end.                                                         *)
(***************************************************************************)
ReadAt(cursor, want) ==
    IF cursor >= Len(src) THEN <<>>
    ELSE SubSeq(src, cursor + 1, Min(cursor + want, Len(src)))


(***************************************************************************)
(* Stream items: anyhow::Result<String>.                                   *)
(***************************************************************************)
OkItem(line) == [ok |-> TRUE, val |-> line, err |-> ""]
ErrItem(msg) == [ok |-> FALSE, val |-> <<>>, err |-> msg]

OkLines(items) == [i \in 1..Len(items) |-> items[i].val]

(***************************************************************************)
(* JsonlDeserialize::deserialize: the stream mapped through                *)
(* serde_json::from_str.  On the bytes of this model's sources a line is   *)
(* JSON exactly when it is a number: digits only, no leading zero.         *)
(***************************************************************************)
IsDigit(b) == b >= 48 /\ b <= 57

RECURSIVE ParseDigits(_, _)
ParseDigits(line, acc) ==
    IF line = <<>> THEN acc ELSE ParseDigits(Tail(line), 10 * acc + (Head(line) - 48))

\* the texts of the error of a line that does not decode, as bytes:
\* "Failed to parse JSON line: " and what serde_json writes after it
Text_failed ==
    <<70, 97, 105, 108, 101, 100, 32, 116, 111, 32, 112, 97, 114, 115, 101,
      32, 74, 83, 79, 78, 32, 108, 105, 110, 101, 58, 32>>
\* "expected value"
Text_expected_value ==
    <<101, 120, 112, 101, 99, 116, 101, 100, 32, 118, 97, 108, 117, 101>>
\* "invalid number"
Text_invalid_number ==
    <<105, 110, 118, 97, 108, 105, 100, 32, 110, 117, 109, 98, 101, 114>>
\* "trailing characters"
Text_trailing_characters ==
    <<116, 114, 97, 105, 108, 105, 110, 103, 32, 99, 104, 97, 114, 97, 99,
      116, 101, 114, 115>>
\* " at line 1 column "
Text_at_line_1_column ==
    <<32, 97, 116, 32, 108, 105, 110, 101, 32, 49, 32, 99, 111, 108, 117,
      109, 110, 32>>
\* "IO error"
Text_io_error ==
    <<73, 79, 32, 101, 114, 114, 111, 114>>

\* a number as serde_json prints it
RECURSIVE Decimal(_)
Decimal(n) == IF n < 10 THEN <<48 + n>> ELSE Decimal(n \div 10) \o <<48 + (n % 10)>>

\* the white space JSON allows after a value
IsJsonSpace(b) == b \in {SP, 9, LF, CR}

\* the message of the serde_json error for a line that is not a number:
\* what is wrong, and the column of the byte at which the parser stopped
serde_message(line) ==
    LET after == CHOOSE i \in 1..(Len(line) + 1) :
                     /\ i > Len(line) \/ ~IsDigit(line[i])
                     /\ \A j \in 1..(i - 1) : IsDigit(line[j])
        stop == CHOOSE i \in after..(Len(line) + 1) :
                    /\ i > Len(line) \/ ~IsJsonSpace(line[i])
                    /\ \A j \in after..(i - 1) : IsJsonSpace(line[j])
    IN  IF ~IsDigit(line[1])
        THEN Text_expected_value \o Text_at_line_1_column \o Decimal(1)
        ELSE IF line[1] = 48 /\ after > 2
        THEN Text_invalid_number \o Text_at_line_1_column \o Decimal(2)
        ELSE Text_trailing_characters \o Text_at_line_1_column \o Decimal(stop)

from_str(line) ==
    IF /\ line # <<>>
       /\ \A i \in 1..Len(line) : IsDigit(line[i])
       /\ (Len(line) > 1 => line[1] # 48)
    THEN [ok |-> TRUE, val |-> ParseDigits(line, 0), err |-> "", msg |-> <<>>]
    ELSE [ok |-> FALSE, val |-> 0, err |-> "Failed to parse JSON line",
          msg |-> Text_failed \o serde_message(line)]

\* result.and_then(|line| from_str(&line).map_err(..))
deserialize(item) ==
    IF item.ok THEN from_str(item.val)
    ELSE [ok |-> FALSE, val |-> 0, err |-> item.err, msg |-> Text_io_error]

\* a map that drops the lines that fail to decode
Yield_decoded_only(st, opt) ==
    [st EXCEPT !.items = IF opt = None THEN @ ELSE Append(@, opt[1]),
               !.values = IF opt = None \/ ~deserialize(opt[1]).ok
                          THEN @ ELSE Append(@, deserialize(opt[1])),
               !.done = (opt = None)]

\* what the stream yields for one more item of the underlying stream
Yield(st, opt) ==
    [st EXCEPT !.items = IF opt = None THEN @ ELSE Append(@, opt[1]),
               !.values = IF opt = None THEN @ ELSE Append(@, deserialize(opt[1])),
               !.done = (opt = None)]

(***************************************************************************)
(* tokio::io::Lines<BufReader<R>>::poll_next_line, as Jsonl and TakeNLines *)
(* call it: read_until(LF) from the cursor, reject bytes that are not      *)
(* UTF-8, drop the final LF and then a final CR.                           *)
(***************************************************************************)
poll_next_line(cursor) ==
    LET n == Len(src)
        stop == IF \E i \in (cursor + 1)..n : src[i] = LF
                THEN CHOOSE i \in (cursor + 1)..n :
                         src[i] = LF /\ \A j \in (cursor + 1)..(i - 1) : src[j] # LF
                ELSE n
        raw == SubSeq(src, cursor + 1, stop)
        l1 == IF raw # <<>> /\ raw[Len(raw)] = LF THEN SubSeq(raw, 1, Len(raw) - 1) ELSE raw
        l2 == IF raw # l1 /\ l1 # <<>> /\ l1[Len(l1)] = CR THEN SubSeq(l1, 1, Len(l1) - 1) ELSE l1
    IN  IF cursor >= n THEN [kind |-> "eof", line |-> <<>>, cursor |-> cursor]
        ELSE IF ~IsValidUtf8(raw) THEN [kind |-> "err", line |-> <<>>, cursor |-> stop]
        ELSE [kind |-> "line", line |-> l2, cursor |-> stop]

(***************************************************************************)
(* impl Stream for Jsonl: poll_next.  A blank line makes poll_next call    *)
(* itself; `depth` counts the nested calls.                                *)
(***************************************************************************)
RECURSIVE Jsonl_poll_next(_, _)
Jsonl_poll_next(cursor, depth) ==
    LET r == poll_next_line(cursor)
    IN  IF r.kind = "line"
        THEN IF str_trim(r.line) = <<>>
             THEN Jsonl_poll_next(r.cursor, depth + 1)
             ELSE [item |-> Some(OkItem(str_trim(r.line))), cursor |-> r.cursor, depth |-> depth]
        ELSE IF r.kind = "eof"
        THEN [item |-> None, cursor |-> r.cursor, depth |-> depth]
        ELSE [item |-> Some(ErrItem("IO error")), cursor |-> r.cursor, depth |-> depth]

\* Jsonl::new
Jsonl_new ==
    [cursor |-> 0, items |-> <<>>, values |-> <<>>, done |-> FALSE, depth |-> 0,
     count |-> None]

\* one poll of the Jsonl stream by its consumer
JsonlPollNext ==
    /\ phase = "jsonl"
    /\ ~jsonl.done
    /\ LET r == Jsonl_poll_next(jsonl.cursor, 1)
       IN  jsonl' = [Yield(jsonl, r.item) EXCEPT !.cursor = r.cursor, !.depth = r.depth]
    /\ UNCHANGED <<io, src, phase, rev, first, last>>

(***************************************************************************)
(* JsonlReader::count.  The trait declares it; its body is not among the   *)
(* sources, so it is written from the specification: it drains the stream  *)
(* and counts the lines the stream yields, keeping none.  The caller calls *)
(* it on a Jsonl it has not polled, over the same source, once the stream  *)
(* it polled has ended, and goes on to first_n or to the reverse readers.  *)
(***************************************************************************)
\* a count that also counts the poll that ends the stream
RECURSIVE count_polls(_)
count_polls(cursor) ==
    LET r == Jsonl_poll_next(cursor, 1)
    IN  IF r.item = None THEN 1 ELSE 1 + count_polls(r.cursor)

\* a count of the lines that decode
RECURSIVE count_decodable(_)
count_decodable(cursor) ==
    LET r == Jsonl_poll_next(cursor, 1)
    IN  IF r.item = None THEN 0
        ELSE (IF deserialize(r.item[1]).ok THEN 1 ELSE 0) + count_decodable(r.cursor)

RECURSIVE count(_)
count(cursor) ==
    LET r == Jsonl_poll_next(cursor, 1)
    IN  IF r.item = None THEN 0 ELSE 1 + count(r.cursor)

Count ==
    /\ phase = "jsonl" /\ jsonl.done
    /\ phase' = "counted"
    /\ jsonl' = [jsonl EXCEPT !.count = Some(count(0))]
    /\ UNCHANGED <<io, src, rev, first, last>>

(***************************************************************************)
(* TakeNLines (first_n).  get_n hands the reader to a new BufReader; the   *)
(* caller of this model calls first_n on a Jsonl it has not polled, so the *)
(* cursor starts at 0.                                                     *)
(***************************************************************************)
\* `polls` counts the polls of the consumer
TakeNLines_new(n) ==
    [made |-> TRUE, n |-> n, remaining |-> n, cursor |-> 0,
     items |-> <<>>, values |-> <<>>, done |-> FALSE, depth |-> 0, polls |-> 0]

\* a poll_next that counts a blank line against `remaining`
RECURSIVE TakeNLines_poll_next_counting_blank(_, _, _)
TakeNLines_poll_next_counting_blank(cursor, remaining, depth) ==
    IF remaining = 0
    THEN [item |-> None, cursor |-> cursor, remaining |-> remaining, depth |-> depth]
    ELSE LET r == poll_next_line(cursor)
         IN  IF r.kind = "line"
             THEN IF str_trim(r.line) # <<>>
                  THEN [item |-> Some(OkItem(str_trim(r.line))), cursor |-> r.cursor,
                        remaining |-> remaining - 1, depth |-> depth]
                  ELSE TakeNLines_poll_next_counting_blank(r.cursor, remaining - 1, depth + 1)
             ELSE IF r.kind = "eof"
             THEN [item |-> None, cursor |-> r.cursor, remaining |-> remaining,
                   depth |-> depth]
             ELSE [item |-> Some(ErrItem("IO error")), cursor |-> r.cursor,
                   remaining |-> remaining, depth |-> depth]

\* a poll_next that reads the next line with `remaining` at 0 as well
RECURSIVE TakeNLines_poll_next_unchecked(_, _, _)
TakeNLines_poll_next_unchecked(cursor, remaining, depth) ==
    LET r == poll_next_line(cursor)
    IN  IF r.kind = "line"
        THEN IF str_trim(r.line) # <<>>
             THEN [item |-> Some(OkItem(str_trim(r.line))), cursor |-> r.cursor,
                   remaining |-> remaining - 1, depth |-> depth]
             ELSE TakeNLines_poll_next_unchecked(r.cursor, remaining, depth + 1)
        ELSE IF r.kind = "eof"
        THEN [item |-> None, cursor |-> r.cursor, remaining |-> remaining,
              depth |-> depth]
        ELSE [item |-> Some(ErrItem("IO error")), cursor |-> r.cursor,
              remaining |-> remaining, depth |-> depth]

RECURSIVE TakeNLines_poll_next(_, _, _)
TakeNLines_poll_next(cursor, remaining, depth) ==
    IF remaining = 0
    THEN [item |-> None, cursor |-> cursor, remaining |-> remaining, depth |-> depth]
    ELSE LET r == poll_next_line(cursor)
         IN  IF r.kind = "line"
             THEN IF str_trim(r.line) # <<>>
                  THEN [item |-> Some(OkItem(str_trim(r.line))), cursor |-> r.cursor,
                        remaining |-> remaining - 1, depth |-> depth]
                  ELSE TakeNLines_poll_next(r.cursor, remaining, depth + 1)
             ELSE IF r.kind = "eof"
             THEN [item |-> None, cursor |-> r.cursor, remaining |-> remaining,
                   depth |-> depth]
             ELSE [item |-> Some(ErrItem("IO error")), cursor |-> r.cursor,
                   remaining |-> remaining, depth |-> depth]

\* JsonlReader::first_n(n)
FirstN ==
    /\ phase = "counted"
    /\ phase' = "first_n"
    /\ \E n \in 0..MaxN : first' = TakeNLines_new(n)
    /\ UNCHANGED <<io, src, jsonl, rev, last>>

\* the stream after one poll of its consumer
polled(st) ==
    LET r == TakeNLines_poll_next(st.cursor, st.remaining, 1)
    IN  [Yield(st, r.item) EXCEPT !.cursor = r.cursor, !.remaining = r.remaining,
                                  !.depth = r.depth, !.polls = @ + 1]

TakeNPollNext ==
    /\ phase = "first_n"
    /\ ~first.done
    /\ first' = polled(first)
    /\ UNCHANGED <<io, src, phase, jsonl, rev, last>>

\* a poll of a stream that has returned None before
TakeNPollEnded ==
    /\ phase = "first_n"
    /\ first.done /\ first.polls < MaxPolls
    /\ first' = polled(first)
    /\ UNCHANGED <<io, src, phase, jsonl, rev, last>>

(***************************************************************************)
(* TakeNLinesReverse (last_n).  `pc` is the place TakeNLinesReverse::new   *)
(* stands at; "stream" once it has returned Ok(Self), "failed" once it has *)
(* returned an error.  `lines` is what the IntoIter still holds.           *)
(***************************************************************************)

TakeNLinesReverse_start(n) ==
    [made |-> TRUE, n |-> n, pc |-> "seek_end", cursor |-> 0,
     file_size |-> 0, current_pos |-> 0, buffer |-> <<>>, lines_found |-> <<>>,
     lines |-> <<>>, items |-> <<>>, values |-> <<>>, done |-> FALSE]

\* JsonlReader::last_n(n), on a Jsonl the caller has not polled
LastN ==
    /\ phase = "first_n" /\ first.done
    /\ phase' = "last_n"
    /\ last' = TakeNLinesReverse_start(first.n)
    /\ UNCHANGED <<io, src, jsonl, rev, first>>

\* the code after the loop: keep the last n lines, reverse them, return
finish(st) ==
    LET found == st.lines_found
        kept == IF Len(found) > st.n
                THEN SubSeq(found, Len(found) - st.n + 1, Len(found))
                ELSE found
    IN  [st EXCEPT !.lines_found = kept, !.lines = Reverse(kept), !.pc = "stream",
                   !.buffer = <<>>]

\* a loop that reads on to the start of the source whatever it has found
last_n_loop_to_start(st) ==
    IF st.current_pos > 0 THEN [st EXCEPT !.pc = "chunk"] ELSE finish(st)

\* `while current_pos > 0 && lines_found.len() < n`
last_n_loop(st) ==
    IF st.current_pos > 0 /\ Len(st.lines_found) < st.n
    THEN [st EXCEPT !.pc = "chunk"]
    ELSE finish(st)

LastNSeekEnd ==
    /\ phase = "last_n" /\ last.pc = "seek_end"
    /\ LET file_size == Len(src)
           st == [last EXCEPT !.file_size = file_size, !.cursor = file_size]
       IN  last' = IF file_size = 0 \/ last.n = 0
                   THEN [st EXCEPT !.lines = <<>>, !.pc = "stream"]
                   ELSE last_n_loop([st EXCEPT !.current_pos = file_size])
    /\ UNCHANGED <<io, src, phase, jsonl, rev, first>>

\* `for line in lines[start_idx..].iter().rev()`: i is the line looked at
RECURSIVE collect(_, _, _, _, _)
collect(lines, i, start_idx, found, n) ==
    IF i <= start_idx THEN found
    ELSE LET trimmed == str_trim(lines[i])
         IN  IF trimmed # <<>>
             THEN IF Len(found) + 1 >= n THEN <<trimmed>> \o found
                  ELSE collect(lines, i - 1, start_idx, <<trimmed>> \o found, n)
             ELSE collect(lines, i - 1, start_idx, found, n)

\* a last_n that hands out what it has found when a seek or a read fails
last_n_failed_partial(st) ==
    [st EXCEPT !.lines = Reverse(st.lines_found), !.pc = "stream", !.buffer = <<>>]

\* TakeNLinesReverse::new leaves through `?`: it returns Err, and what it
\* has found is dropped
last_n_failed(st) ==
    [st EXCEPT !.pc = "failed", !.buffer = <<>>, !.lines_found = <<>>, !.lines = <<>>]

\* one iteration of the loop: seek, read_exact, cut the buffer into lines
last_n_chunk(st) ==
    LET read_size == Min(chunk_size, st.current_pos)
        new_pos == st.current_pos - read_size
        chunk == ReadAt(new_pos, read_size)
        buffer == chunk \o st.buffer
        buffer_str == from_utf8_lossy(buffer)
        lines == str_lines(buffer_str)
        partial == new_pos > 0 /\ buffer # <<>> /\ buffer[1] # LF
        st1 == [st EXCEPT !.cursor = new_pos + Len(chunk), !.current_pos = new_pos]
    IN  IF Len(chunk) < read_size
        THEN last_n_failed(st1)
        ELSE IF partial /\ Len(lines) <= 1
        THEN last_n_loop([st1 EXCEPT !.buffer = buffer])
        ELSE LET start_idx == IF partial THEN 1 ELSE 0
             IN  last_n_loop([st1 EXCEPT
                     !.buffer = IF partial THEN lines[1] ELSE <<>>,
                     !.lines_found =
                         collect(lines, Len(lines), start_idx, st.lines_found, st.n)])

LastNChunk ==
    /\ phase = "last_n" /\ last.pc = "chunk"
    /\ last' = last_n_chunk(last)
    /\ UNCHANGED <<io, src, phase, jsonl, rev, first>>

\* a poll_next that seeks the source before it hands out a line
TakeNLinesReverse_poll_next_seeking(st) ==
    LET opt == IF st.lines = <<>> THEN None ELSE Some(OkItem(Head(st.lines)))
    IN  [Yield(st, opt) EXCEPT !.lines = IF @ = <<>> THEN @ ELSE Tail(@),
                               !.cursor = 0]

\* impl Stream for TakeNLinesReverse: poll_next, `self.lines.next()`
TakeNLinesReverse_poll_next(st) ==
    LET opt == IF st.lines = <<>> THEN None ELSE Some(OkItem(Head(st.lines)))
    IN  [Yield(st, opt) EXCEPT !.lines = IF @ = <<>> THEN @ ELSE Tail(@)]

LastNPollNext ==
    /\ phase = "last_n" /\ last.pc = "stream"
    /\ ~last.done
    /\ last' = TakeNLinesReverse_poll_next(last)
    /\ UNCHANGED <<io, src, phase, jsonl, rev, first>>

(***************************************************************************)
(* RevBufReader.                                                           *)
(***************************************************************************)
DEFAULT_BUF_SIZE == 8 * 1024

Readers == {1, 2}

\* a constructor that takes the whole of `buf` for valid data
with_capacity_filled(capacity) ==
    [made |-> TRUE, buf_len |-> capacity, pos |-> 0, cap |-> capacity,
     file_pos |-> None, file_size |-> None, at_start |-> FALSE,
     cursor |-> 0, pc |-> "idle", size_queries |-> 0,
     accumulated_data |-> <<>>, current_end |-> 0,
     chunk_start |-> 0, chunk_size |-> 0, chunk |-> <<>>,
     rets |-> <<>>]

\* RevBufReader::with_capacity; `pc` is the place the pending next_line
\* call stands at, "idle" between calls; `rets` lists what the calls
\* returned; `size_queries` counts the seeks to the end the reader issued
with_capacity(capacity) ==
    [made |-> TRUE, buf_len |-> capacity, pos |-> 0, cap |-> 0,
     file_pos |-> None, file_size |-> None, at_start |-> FALSE,
     cursor |-> 0, pc |-> "idle", size_queries |-> 0,
     accumulated_data |-> <<>>, current_end |-> 0,
     chunk_start |-> 0, chunk_size |-> 0, chunk |-> <<>>,
     rets |-> <<>>]

\* RevBufReader::buffer: &self.buf[self.pos..self.cap], of the zeroed `buf`
buffer(rd) == SubSeq([i \in 1..rd.buf_len |-> 0], rd.pos + 1, rd.cap)

\* a reader that is not constructed yet
NoReader == [with_capacity(0) EXCEPT !.made = FALSE]

\* the lines a reader's calls returned, in order
RevLines(r) ==
    LET some == {i \in 1..Len(rev[r].rets) : rev[r].rets[i] \notin {None, Err_io}}
        kth(k) == CHOOSE i \in some : Cardinality({j \in some : j <= i}) = k
    IN  [k \in 1..Cardinality(some) |-> rev[r].rets[kth(k)][1]]

\* the caller constructs reader 1 with RevBufReader::new once count has
\* returned, and reader 2 with with_capacity(c), over a small
\* source, once it has stopped calling reader 1
RevNew ==
    /\ phase = "counted"
    /\ phase' = "rev"
    /\ rev' = [rev EXCEPT ![1] = with_capacity(DEFAULT_BUF_SIZE)]
    /\ UNCHANGED <<io, src, jsonl, first, last>>

RevWithCapacity ==
    /\ phase = "rev"
    /\ rev[1].pc = "idle" /\ Len(rev[1].rets) = MaxCalls
    /\ ~rev[2].made
    /\ ~IsLarge(src)
    /\ \E c \in 1..MaxCap : rev' = [rev EXCEPT ![2] = with_capacity(c)]
    /\ UNCHANGED <<io, src, phase, jsonl, first, last>>

\* the handle a reader seeks and reads: `inner`, which the reader owns
inner_shared(r) == 1

inner(r) == r

\* reader r as its next step sees it: the cursor is the one of its handle
Seen(r) == [rev[r] EXCEPT !.cursor = rev[inner(r)].cursor]

\* the readers after a step of reader r that leaves it as `rd`
Stepped(r, rd) == [rev EXCEPT ![r] = rd, ![inner(r)].cursor = rd.cursor]

\* Lines::next_line: the call starts
RevNextLine(r) ==
    /\ phase \in {"rev", "concurrent", "faulty", "short", "alone"}
    /\ rev[r].made /\ rev[r].pc = "idle"
    /\ Len(rev[r].rets) < MaxCalls
    /\ rev' = [rev EXCEPT ![r].pc = "initialize"]
    /\ UNCHANGED <<io, src, phase, jsonl, first, last>>

\* the call returns `v`
Return(rd, v) ==
    [rd EXCEPT !.pc = "idle", !.rets = Append(@, v),
               !.accumulated_data = <<>>, !.chunk = <<>>]

\* a loop head that forgets the position when it returns Ok(None)
LoopHead_forgetting(rd) ==
    IF rd.current_end > 0 THEN [rd EXCEPT !.pc = "seek"]
    ELSE Return([rd EXCEPT !.file_pos = None], None)

\* `while current_end > 0` at the head of the loop, and `Ok(None)` after it
LoopHead(rd) ==
    IF rd.current_end > 0 THEN [rd EXCEPT !.pc = "seek"] ELSE Return(rd, None)

\* an initialize() that asks for the size in every call
initialize_every_call(rd) ==
    [rd EXCEPT !.file_size = Some(Len(src)),
               !.file_pos = IF @ = None THEN Some(Len(src)) ELSE @,
               !.cursor = Len(src), !.size_queries = @ + 1]

\* initialize(): the size is asked for once
initialize(rd) ==
    IF rd.file_size = None
    THEN [rd EXCEPT !.file_size = Some(Len(src)), !.file_pos = Some(Len(src)),
                    !.cursor = Len(src), !.size_queries = @ + 1]
    ELSE rd

\* the call up to the head of the loop
enter(rd0) ==
    LET rd == initialize(rd0)
        file_size == rd.file_size[1]
        rd2 == IF rd.file_pos = None THEN [rd EXCEPT !.file_pos = Some(file_size)] ELSE rd
    IN  IF file_size = 0 THEN Return(rd, None)
        ELSE LoopHead([rd2 EXCEPT !.accumulated_data = <<>>,
                                  !.current_end = rd2.file_pos[1]])

RevInitialize(r) ==
    /\ rev[r].pc = "initialize"
    /\ rev' = Stepped(r, enter(Seen(r)))
    /\ UNCHANGED <<io, src, phase, jsonl, first, last>>

\* the chunk's bounds and the seek to its start
seek(rd) ==
    LET size == Min(rd.buf_len, rd.current_end)
        chunk_start == rd.current_end - size
    IN  [rd EXCEPT !.chunk_size = size, !.chunk_start = chunk_start,
                   !.cursor = chunk_start, !.chunk = <<>>,
                   !.pc = IF size > 0 THEN "read" ELSE "scan"]

RevSeek(r) ==
    /\ rev[r].pc = "seek"
    /\ rev' = Stepped(r, seek(Seen(r)))
    /\ UNCHANGED <<io, src, phase, jsonl, first, last>>

\* one read of the fill loop; `chunk` holds the total_read bytes read so far
read(rd) ==
    LET got == ReadAt(rd.cursor, rd.chunk_size - Len(rd.chunk))
        chunk == rd.chunk \o got
    IN  [rd EXCEPT !.chunk = chunk, !.cursor = @ + Len(got),
                   !.pc = IF got = <<>> \/ Len(chunk) >= rd.chunk_size
                          THEN "scan" ELSE "read"]

RevRead(r) ==
    /\ rev[r].pc = "read"
    /\ rev' = Stepped(r, read(Seen(r)))
    /\ UNCHANGED <<io, src, phase, jsonl, first, last>>

\* a position that counts the line found among the lines before it
line_file_pos_past_line(chunk_start, lines) ==
    chunk_start + Len(join_lf(lines) \o <<LF>>)

\* the position recorded for the line found: the byte length of the lines
\* before it, joined by "\n", plus one
line_file_pos(chunk_start, lines) ==
    IF Len(lines) > 1
    THEN chunk_start + Len(join_lf(SubSeq(lines, 1, Len(lines) - 1)) \o <<LF>>)
    ELSE chunk_start

\* the rest of the loop body once the chunk is read
scan(rd) ==
    LET accumulated_data == rd.chunk \o rd.accumulated_data
        text == from_utf8_lossy(accumulated_data)
        lines == str_lines(text)
        n == Len(lines)
        last_line == str_trim(lines[n])
        found == [rd EXCEPT !.file_pos = Some(line_file_pos(rd.chunk_start, lines))]
        more == [rd EXCEPT !.accumulated_data = accumulated_data,
                           !.current_end = rd.chunk_start, !.chunk = <<>>]
        trimmed == str_trim(text)
    IN  IF (n > 1 \/ (n = 1 /\ rd.chunk_start = 0)) /\ last_line # <<>>
        THEN Return(found, Some(last_line))
        ELSE IF n > 1
        THEN LoopHead([found EXCEPT !.accumulated_data = <<>>, !.chunk = <<>>,
                                    !.current_end = found.file_pos[1]])
        ELSE IF rd.chunk_start = 0
        THEN IF accumulated_data # <<>> /\ trimmed # <<>>
             THEN Return([more EXCEPT !.file_pos = Some(0)], Some(trimmed))
             ELSE Return(more, None)
        ELSE LoopHead(more)

RevScan(r) ==
    /\ rev[r].pc = "scan"
    /\ rev' = Stepped(r, scan(Seen(r)))
    /\ UNCHANGED <<io, src, phase, jsonl, first, last>>

(***************************************************************************)
(* One reader alone over a source that works: a call run to its end, and   *)
(* the reader after k calls.                                               *)
(***************************************************************************)
step(rd) ==
    CASE rd.pc = "initialize" -> enter(rd)
      [] rd.pc = "seek" -> seek(rd)
      [] rd.pc = "read" -> read(rd)
      [] rd.pc = "scan" -> scan(rd)

\* A call that returns takes at most Fuel steps: a chunk takes three (seek,
\* read, scan), a pass over the source has at most Len(src) chunks, and a
\* blank line found starts a new pass at a lower position.
Fuel == 3 * (Len(src) + 1) * (Len(src) + 1) + 2

RECURSIVE run(_, _)
run(rd, fuel) ==
    IF rd.pc = "idle" \/ fuel = 0 THEN rd ELSE run(step(rd), fuel - 1)

RECURSIVE alone(_, _)
alone(capacity, k) ==
    IF k = 0 THEN with_capacity(capacity)
    ELSE run([alone(capacity, k - 1) EXCEPT !.pc = "initialize"], Fuel)

(***************************************************************************)
(* The system.  `io` is the environment of the source: in mode "works"     *)
(* every seek and read succeeds.                                           *)
(***************************************************************************)
Works == [mode |-> "works", left |-> 0]

Init ==
    /\ src \in Sources
    /\ io = Works
    /\ phase = "jsonl"
    /\ jsonl = Jsonl_new
    /\ rev = [r \in Readers |-> NoReader]
    /\ first = [TakeNLines_new(0) EXCEPT !.made = FALSE]
    /\ last = [TakeNLinesReverse_start(0) EXCEPT !.made = FALSE, !.pc = "none"]

Next ==
    \/ JsonlPollNext
    \/ Count
    \/ FirstN
    \/ TakeNPollNext
    \/ LastN
    \/ LastNSeekEnd
    \/ LastNChunk
    \/ LastNPollNext
    \/ RevNew
    \/ RevWithCapacity
    \/ \E r \in Readers : RevNextLine(r)
    \/ \E r \in Readers : RevInitialize(r)
    \/ \E r \in Readers : RevSeek(r)
    \/ \E r \in Readers : RevRead(r)
    \/ \E r \in Readers : RevScan(r)

Spec == Init /\ [][Next]_vars

(***************************************************************************)
(* Two readers of one capacity, each over its own handle to the same       *)
(* source, called by two tasks whose steps interleave.                     *)
(***************************************************************************)
FewSources == {Concat(ps) : ps \in UNION {[1..k -> Pieces] : k \in 0..MaxFewPieces}}

InitConcurrent ==
    /\ src \in FewSources
    /\ io = Works
    /\ phase = "concurrent"
    /\ jsonl = Jsonl_new
    /\ \E c \in 1..MaxCap : rev = [r \in Readers |-> with_capacity(c)]
    /\ first = [TakeNLines_new(0) EXCEPT !.made = FALSE]
    /\ last = [TakeNLinesReverse_start(0) EXCEPT !.made = FALSE, !.pc = "none"]

NextConcurrent ==
    \/ \E r \in Readers : RevNextLine(r)
    \/ \E r \in Readers : RevInitialize(r)
    \/ \E r \in Readers : RevSeek(r)
    \/ \E r \in Readers : RevRead(r)
    \/ \E r \in Readers : RevScan(r)

SpecConcurrent == InitConcurrent /\ [][NextConcurrent]_vars

(***************************************************************************)
(* One reader over a source that misbehaves.  In mode "fails" a seek or a  *)
(* read may return Err, in mode "ends early" a read may return Ok(0) while *)
(* bytes of the chunk are missing; `io.left` counts how often it still     *)
(* may.  An error leaves the call through `?`: the locals of the call are  *)
(* dropped, the fields of the reader stay as they are.                     *)
(***************************************************************************)
\* a read error that is taken for the end of the data
read_failed_as_eof(rd) == [rd EXCEPT !.pc = "scan"]

\* a seek error after which the reader takes the chunk for consumed
seek_failed_losing_position(rd) ==
    Return([rd EXCEPT !.file_pos = Some(rd.current_end - Min(rd.buf_len, rd.current_end))],
           Err_io)

\* `self.inner.seek(SeekFrom::End(0)).await?` of initialize()
initialize_failed(rd) == Return([rd EXCEPT !.size_queries = @ + 1], Err_io)

\* `self.inner.seek(SeekFrom::Start(chunk_start)).await?`
seek_failed(rd) == Return(rd, Err_io)

\* `self.inner.read(..).await?`
read_failed(rd) == Return(rd, Err_io)

\* `0 => break`, then `chunk.truncate(total_read)`
read_zero(rd) == [rd EXCEPT !.pc = "scan"]

MayFail == io.mode = "fails" /\ io.left > 0

RevInitializeFail(r) ==
    /\ rev[r].pc = "initialize" /\ rev[r].file_size = None
    /\ MayFail
    /\ rev' = Stepped(r, initialize_failed(Seen(r)))
    /\ io' = [io EXCEPT !.left = @ - 1]
    /\ UNCHANGED <<src, phase, jsonl, first, last>>

RevSeekFail(r) ==
    /\ rev[r].pc = "seek"
    /\ MayFail
    /\ rev' = Stepped(r, seek_failed(Seen(r)))
    /\ io' = [io EXCEPT !.left = @ - 1]
    /\ UNCHANGED <<src, phase, jsonl, first, last>>

RevReadFail(r) ==
    /\ rev[r].pc = "read"
    /\ MayFail
    /\ rev' = Stepped(r, read_failed(Seen(r)))
    /\ io' = [io EXCEPT !.left = @ - 1]
    /\ UNCHANGED <<src, phase, jsonl, first, last>>

RevReadZero(r) ==
    /\ rev[r].pc = "read" /\ Len(rev[r].chunk) < rev[r].chunk_size
    /\ io.mode = "ends early" /\ io.left > 0
    /\ rev' = Stepped(r, read_zero(Seen(r)))
    /\ io' = [io EXCEPT !.left = @ - 1]
    /\ UNCHANGED <<src, phase, jsonl, first, last>>

InitFaulty ==
    /\ src \in FewSources
    /\ io \in {[mode |-> m, left |-> MaxFaults] : m \in {"fails", "ends early"}}
    /\ phase = "faulty"
    /\ jsonl = Jsonl_new
    /\ \E c \in 1..MaxCap : rev = [r \in Readers |-> IF r = 1 THEN with_capacity(c) ELSE NoReader]
    /\ first = [TakeNLines_new(0) EXCEPT !.made = FALSE]
    /\ last = [TakeNLinesReverse_start(0) EXCEPT !.made = FALSE, !.pc = "none"]

NextFaulty ==
    \/ \E r \in Readers : RevNextLine(r)
    \/ \E r \in Readers : RevInitialize(r)
    \/ \E r \in Readers : RevInitializeFail(r)
    \/ \E r \in Readers : RevSeek(r)
    \/ \E r \in Readers : RevSeekFail(r)
    \/ \E r \in Readers : RevRead(r)
    \/ \E r \in Readers : RevReadFail(r)
    \/ \E r \in Readers : RevReadZero(r)
    \/ \E r \in Readers : RevScan(r)

SpecFaulty == InitFaulty /\ [][NextFaulty]_vars

(***************************************************************************)
(* One reader over a source that answers reads with short counts: in mode  *)
(* "short" a read may return any positive number of bytes below the number *)
(* asked for.                                                              *)
(***************************************************************************)
\* a short read after which the reader takes the chunk for complete
read_short_once(rd, n) ==
    LET got == ReadAt(rd.cursor, n)
    IN  [rd EXCEPT !.chunk = @ \o got, !.cursor = @ + Len(got), !.pc = "scan"]

\* one read of the fill loop that returns n bytes: `n => total_read += n`
read_short(rd, n) ==
    LET got == ReadAt(rd.cursor, n)
        chunk == rd.chunk \o got
    IN  [rd EXCEPT !.chunk = chunk, !.cursor = @ + Len(got),
                   !.pc = IF got = <<>> \/ Len(chunk) >= rd.chunk_size
                          THEN "scan" ELSE "read"]

RevReadShort(r) ==
    /\ rev[r].pc = "read"
    /\ io.mode = "short"
    /\ \E n \in 1..(rev[r].chunk_size - Len(rev[r].chunk) - 1) :
           rev' = Stepped(r, read_short(Seen(r), n))
    /\ UNCHANGED <<io, src, phase, jsonl, first, last>>

InitShort ==
    /\ src \in FewSources
    /\ io = [mode |-> "short", left |-> 0]
    /\ phase = "short"
    /\ jsonl = Jsonl_new
    /\ \E c \in 1..MaxCap : rev = [r \in Readers |-> IF r = 1 THEN with_capacity(c) ELSE NoReader]
    /\ first = [TakeNLines_new(0) EXCEPT !.made = FALSE]
    /\ last = [TakeNLinesReverse_start(0) EXCEPT !.made = FALSE, !.pc = "none"]

NextShort ==
    \/ \E r \in Readers : RevNextLine(r)
    \/ \E r \in Readers : RevInitialize(r)
    \/ \E r \in Readers : RevSeek(r)
    \/ \E r \in Readers : RevRead(r)
    \/ \E r \in Readers : RevReadShort(r)
    \/ \E r \in Readers : RevScan(r)

SpecShort == InitShort /\ [][NextShort]_vars

(***************************************************************************)
(* last_n alone over a source that misbehaves: in mode "fails" a seek or   *)
(* the read_exact of a chunk may return Err, in mode "ends early" a read   *)
(* may return Ok(0) before the chunk is full, which read_exact turns into  *)
(* an UnexpectedEof error.  The reader is moved into the call and dropped  *)
(* when the call returns.                                                  *)
(***************************************************************************)
\* `reader.seek(SeekFrom::End(0)).await?`
seek_end_failed(st) == last_n_failed(st)

\* `reader.seek(SeekFrom::Start(new_pos)).await?`
chunk_seek_failed(st) == last_n_failed(st)

\* `reader.read_exact(..).await?` after the seek to new_pos, with k bytes
\* read before the read that fails or returns Ok(0)
chunk_read_failed(st, k) ==
    LET read_size == Min(chunk_size, st.current_pos)
        new_pos == st.current_pos - read_size
    IN  last_n_failed([st EXCEPT !.cursor = new_pos + k])

LastNSeekEndFail ==
    /\ phase = "last_n" /\ last.pc = "seek_end"
    /\ MayFail
    /\ last' = seek_end_failed(last)
    /\ io' = [io EXCEPT !.left = @ - 1]
    /\ UNCHANGED <<src, phase, jsonl, rev, first>>

LastNChunkSeekFail ==
    /\ phase = "last_n" /\ last.pc = "chunk"
    /\ MayFail
    /\ last' = chunk_seek_failed(last)
    /\ io' = [io EXCEPT !.left = @ - 1]
    /\ UNCHANGED <<src, phase, jsonl, rev, first>>

LastNChunkReadFail ==
    /\ phase = "last_n" /\ last.pc = "chunk"
    /\ MayFail
    /\ \E k \in {0, Min(chunk_size, last.current_pos) - 1} :
           last' = chunk_read_failed(last, k)
    /\ io' = [io EXCEPT !.left = @ - 1]
    /\ UNCHANGED <<src, phase, jsonl, rev, first>>

LastNChunkReadZero ==
    /\ phase = "last_n" /\ last.pc = "chunk"
    /\ io.mode = "ends early" /\ io.left > 0
    /\ \E k \in {0, Min(chunk_size, last.current_pos) - 1} :
           last' = chunk_read_failed(last, k)
    /\ io' = [io EXCEPT !.left = @ - 1]
    /\ UNCHANGED <<src, phase, jsonl, rev, first>>

InitLastNFaulty ==
    /\ src \in FewSources \cup LargeSources
    /\ io \in {[mode |-> m, left |-> MaxFaults] : m \in {"fails", "ends early"}}
    /\ phase = "last_n"
    /\ jsonl = Jsonl_new
    /\ rev = [r \in Readers |-> NoReader]
    /\ first = [TakeNLines_new(0) EXCEPT !.made = FALSE]
    /\ \E n \in 0..MaxN : last = TakeNLinesReverse_start(n)

NextLastNFaulty ==
    \/ LastNSeekEnd
    \/ LastNSeekEndFail
    \/ LastNChunk
    \/ LastNChunkSeekFail
    \/ LastNChunkReadFail
    \/ LastNChunkReadZero
    \/ LastNPollNext

SpecLastNFaulty == InitLastNFaulty /\ [][NextLastNFaulty]_vars

(***************************************************************************)
(* One reader of any capacity with_capacity accepts, 0 included, over a    *)
(* source that works, called by a task that awaits every call: a call that *)
(* can take a step takes it.                                               *)
(***************************************************************************)
InitAnyCapacity ==
    /\ src \in FewSources
    /\ io = Works
    /\ phase = "alone"
    /\ jsonl = Jsonl_new
    /\ \E c \in 0..MaxCap : rev = [r \in Readers |-> IF r = 1 THEN with_capacity(c) ELSE NoReader]
    /\ first = [TakeNLines_new(0) EXCEPT !.made = FALSE]
    /\ last = [TakeNLinesReverse_start(0) EXCEPT !.made = FALSE, !.pc = "none"]

NextAnyCapacity ==
    \/ \E r \in Readers : RevNextLine(r)
    \/ \E r \in Readers : RevInitialize(r)
    \/ \E r \in Readers : RevSeek(r)
    \/ \E r \in Readers : RevRead(r)
    \/ \E r \in Readers : RevScan(r)

SpecAnyCapacity == InitAnyCapacity /\ [][NextAnyCapacity]_vars /\ WF_vars(NextAnyCapacity)

(***************************************************************************)
(* One reader whose caller may drop the future of a pending next_line call *)
(* at a suspension point: at the seek of initialize(), at the seek to a    *)
(* chunk or at a read.  The locals of the call are dropped with the        *)
(* future, the fields of the reader stay; the seek or read that was        *)
(* pending may or may not have moved the cursor of the handle.             *)
(***************************************************************************)
\* a drop after which the reader takes the chunk it was fetching for read
cancelled_past_chunk(rd, cursor) ==
    [rd EXCEPT !.pc = "idle", !.cursor = cursor, !.accumulated_data = <<>>,
               !.chunk = <<>>,
               !.file_pos = IF rd.pc = "read" THEN Some(rd.chunk_start) ELSE @]

\* the reader after the drop, with the cursor of the handle at `cursor`
cancelled(rd, cursor) ==
    [rd EXCEPT !.pc = "idle", !.cursor = cursor, !.accumulated_data = <<>>,
               !.chunk = <<>>]

\* where the pending seek or read leaves the cursor if it completes
PendingTarget(rd) ==
    CASE rd.pc = "initialize" -> Len(src)
      [] rd.pc = "seek" -> rd.current_end - Min(rd.buf_len, rd.current_end)
      [] rd.pc = "read" ->
             rd.cursor + Len(ReadAt(rd.cursor, rd.chunk_size - Len(rd.chunk)))

RevCancel(r) ==
    /\ \/ rev[r].pc = "initialize" /\ rev[r].file_size = None
       \/ rev[r].pc \in {"seek", "read"}
    /\ io.mode = "cancels" /\ io.left > 0
    /\ \E cursor \in {Seen(r).cursor, PendingTarget(Seen(r))} :
           rev' = Stepped(r, cancelled(Seen(r), cursor))
    /\ io' = [io EXCEPT !.left = @ - 1]
    /\ UNCHANGED <<src, phase, jsonl, first, last>>

InitCancel ==
    /\ src \in FewSources
    /\ io = [mode |-> "cancels", left |-> MaxCancels]
    /\ phase = "alone"
    /\ jsonl = Jsonl_new
    /\ \E c \in 1..MaxCap : rev = [r \in Readers |-> IF r = 1 THEN with_capacity(c) ELSE NoReader]
    /\ first = [TakeNLines_new(0) EXCEPT !.made = FALSE]
    /\ last = [TakeNLinesReverse_start(0) EXCEPT !.made = FALSE, !.pc = "none"]

NextCancel ==
    \/ \E r \in Readers : RevNextLine(r)
    \/ \E r \in Readers : RevInitialize(r)
    \/ \E r \in Readers : RevSeek(r)
    \/ \E r \in Readers : RevRead(r)
    \/ \E r \in Readers : RevScan(r)
    \/ \E r \in Readers : RevCancel(r)

SpecCancel == InitCancel /\ [][NextCancel]_vars

(***************************************************************************)
(* The same callers as in Spec over sources in which a CR may stand        *)
(* without an LF after it: the pieces are "a", "b", CR and LF.             *)
(***************************************************************************)
CrPieces == {<<97>>, <<98>>, <<CR>>, <<LF>>}

CrSources == {Concat(ps) : ps \in UNION {[1..k -> CrPieces] : k \in 0..MaxCrPieces}}

InitBareCr ==
    /\ src \in CrSources
    /\ io = Works
    /\ phase = "jsonl"
    /\ jsonl = Jsonl_new
    /\ rev = [r \in Readers |-> NoReader]
    /\ first = [TakeNLines_new(0) EXCEPT !.made = FALSE]
    /\ last = [TakeNLinesReverse_start(0) EXCEPT !.made = FALSE, !.pc = "none"]

SpecBareCr == InitBareCr /\ [][Next]_vars


(***************************************************************************)
(* The same callers as in Spec over sources that hold bytes that are not   *)
(* UTF-8: the pieces are "1", LF, a lead byte without its continuation     *)
(* byte and a continuation byte without its lead byte.                     *)
(***************************************************************************)
MalformedPieces == {One, <<LF>>, <<195>>, <<169>>}

MalformedSources ==
    {Concat(ps) : ps \in UNION {[1..k -> MalformedPieces] : k \in 0..MaxMalformedPieces}}

InitMalformed ==
    /\ src \in MalformedSources
    /\ io = Works
    /\ phase = "jsonl"
    /\ jsonl = Jsonl_new
    /\ rev = [r \in Readers |-> NoReader]
    /\ first = [TakeNLines_new(0) EXCEPT !.made = FALSE]
    /\ last = [TakeNLinesReverse_start(0) EXCEPT !.made = FALSE, !.pc = "none"]

SpecMalformed == InitMalformed /\ [][Next]_vars

(***************************************************************************)
(* A first_n stream alone, over sources with and without bytes that are    *)
(* not UTF-8, with a consumer that goes on polling after the stream has    *)
(* returned None.  In mode "fails" a read of the underlying reader may     *)
(* return Err: poll_next_line returns the error and the stream yields it.  *)
(***************************************************************************)
\* a poll that counts the error it yields against `remaining`
poll_failed_counting(st) ==
    [Yield(st, Some(ErrItem("IO error"))) EXCEPT !.remaining = @ - 1,
                                                  !.depth = 1, !.polls = @ + 1]

\* `Poll::Ready(Err(e)) => Poll::Ready(Some(Err(..)))`
poll_failed(st) ==
    [Yield(st, Some(ErrItem("IO error"))) EXCEPT !.depth = 1, !.polls = @ + 1]

TakeNPollFail ==
    /\ phase = "first_n"
    /\ ~first.done /\ first.remaining > 0
    /\ MayFail
    /\ first' = poll_failed(first)
    /\ io' = [io EXCEPT !.left = @ - 1]
    /\ UNCHANGED <<src, phase, jsonl, rev, last>>

InitFirstN ==
    /\ src \in FewSources \cup MalformedSources
    /\ io \in {Works, [mode |-> "fails", left |-> MaxFaults]}
    /\ phase = "first_n"
    /\ jsonl = Jsonl_new
    /\ rev = [r \in Readers |-> NoReader]
    /\ \E n \in 0..MaxN : first = TakeNLines_new(n)
    /\ last = [TakeNLinesReverse_start(0) EXCEPT !.made = FALSE, !.pc = "none"]

NextFirstN == TakeNPollNext \/ TakeNPollFail \/ TakeNPollEnded

SpecFirstN == InitFirstN /\ [][NextFirstN]_vars

(***************************************************************************)
(* Terms of the properties.                                                *)
(***************************************************************************)
\* the non-blank logical lines of a source, in source order: the text
\* between LF bytes, without a CR before the LF, trimmed, not empty
NonBlankLines(s) ==
    LET ls == str_lines(from_utf8_lossy(s))
        trimmed == [k \in 1..Len(ls) |-> str_trim(ls[k])]
    IN  SelectSeq(trimmed, LAMBDA l : l # <<>>)

\* the lines the forward Jsonl stream yielded
FwdLines == OkLines(jsonl.items)

FirstK(seq, k) == SubSeq(seq, 1, Min(k, Len(seq)))

AllOk(items) == \A i \in 1..Len(items) : items[i].ok

\* reader r exists, is between calls, and its last call returned Ok(None)
Exhausted(r) ==
    /\ rev[r].made /\ rev[r].pc = "idle"
    /\ rev[r].rets # <<>> /\ rev[r].rets[Len(rev[r].rets)] = None

\* a line is not empty and neither starts nor ends with white space
IsTrimmed(line) ==
    line # <<>> /\ ~IsWhitespace(line[1]) /\ ~IsWhitespace(line[Len(line)])

HasReplacement(line) ==
    \E i \in 1..(Len(line) - 2) : SubSeq(line, i, i + 2) = REPLACEMENT

\* every CR of the source stands before an LF, and the source is ASCII
CrLfTerminated(s) ==
    /\ \A i \in 1..Len(s) : s[i] < 128
    /\ \A i \in 1..Len(s) : s[i] = CR => (i < Len(s) /\ s[i + 1] = LF)

(***************************************************************************)
(* C1.  Calling next_line until it returns None yields the lines the       *)
(* forward Jsonl stream yields, in reversed order: what a reader has       *)
(* emitted so far is a prefix of the reversed forward lines, and all of    *)
(* them once it has returned None.                                         *)
(***************************************************************************)
C1_ReverseOfForward ==
    \A r \in Readers :
        (rev[r].made /\ jsonl.done /\ AllOk(jsonl.items)) =>
            /\ IsPrefix(RevLines(r), Reverse(FwdLines))
            /\ Exhausted(r) => RevLines(r) = Reverse(FwdLines)

(***************************************************************************)
(* C2.  A reader made by with_capacity(c) emits the same sequence of lines *)
(* as a reader with the default capacity: once both have returned None,    *)
(* their lines are equal.                                                  *)
(***************************************************************************)
C2_CapacityIndependent ==
    (Exhausted(1) /\ Exhausted(2)) => RevLines(2) = RevLines(1)

(***************************************************************************)
(* C3.  last_n(n) yields exactly min(n, T) items, all Ok, and they are the *)
(* last min(n, T) non-blank lines of the source, the last line first.      *)
(***************************************************************************)
C3_LastN ==
    (last.made /\ last.done) =>
        /\ AllOk(last.items)
        /\ OkLines(last.items) = FirstK(Reverse(NonBlankLines(src)), last.n)

(***************************************************************************)
(* C4.  Without I/O error, first_n(n) yields exactly the first min(n, T)   *)
(* non-blank lines of the source, in source order.                         *)
(***************************************************************************)
C4_FirstN ==
    (first.made /\ first.done /\ AllOk(first.items)) =>
        OkLines(first.items) = FirstK(NonBlankLines(src), first.n)

\* first_n(n) has ended on a source that begins with a blank line and has
\* more than n >= 1 non-blank lines, before reading the whole source
C4_Witness ==
    /\ first.made /\ first.done /\ first.n >= 1
    /\ Len(first.items) = first.n
    /\ Len(NonBlankLines(src)) > first.n
    /\ src[1] = LF /\ first.cursor < Len(src)

(***************************************************************************)
(* C5.  For N at least the number of non-blank lines, first_n(N) returns   *)
(* all non-blank lines in source order, last_n(N) returns all of them, and *)
(* the last_n(N) sequence is the first_n(N) sequence reversed.             *)
(***************************************************************************)
C5_WholeSource ==
    (first.done /\ last.made /\ last.done /\ last.n >= Len(NonBlankLines(src))) =>
        /\ OkLines(first.items) = NonBlankLines(src)
        /\ Len(last.items) = Len(NonBlankLines(src))
        /\ OkLines(last.items) = Reverse(OkLines(first.items))

(***************************************************************************)
(* C6.  Every line any reader emits (the Jsonl stream, next_line, first_n, *)
(* last_n) is non-empty and equal to its own trim.                         *)
(***************************************************************************)
C6_NonBlankTrimmed ==
    /\ \A i \in 1..Len(jsonl.items) : jsonl.items[i].ok => IsTrimmed(jsonl.items[i].val)
    /\ \A i \in 1..Len(first.items) : first.items[i].ok => IsTrimmed(first.items[i].val)
    /\ \A i \in 1..Len(last.items) : last.items[i].ok => IsTrimmed(last.items[i].val)
    /\ \A r \in Readers : \A i \in 1..Len(rev[r].rets) :
           rev[r].rets[i] # None => IsTrimmed(rev[r].rets[i][1])

\* a reader of capacity 1 has emitted two lines and returned None on a
\* source with two consecutive blank lines and a white-space-only line
C6_Witness ==
    /\ Exhausted(2) /\ rev[2].buf_len = 1
    /\ Len(RevLines(2)) >= 2
    /\ \E i \in 1..(Len(src) - 2) :
           src[i] = LF /\ src[i + 1] = SP /\ src[i + 2] = LF
    /\ Len(jsonl.items) >= 2

(***************************************************************************)
(* C7.  The deserialize stream yields one result per item of the line      *)
(* stream, in order; the i-th result is an error exactly when the i-th     *)
(* line does not decode, and is the decoded value otherwise; an error      *)
(* does not end the stream.                                                *)
(***************************************************************************)
DecodedInStep(st) ==
    /\ Len(st.values) = Len(st.items)
    /\ \A i \in 1..Len(st.items) :
           st.items[i].ok => st.values[i] = from_str(st.items[i].val)
    /\ \A i \in 1..Len(st.items) : ~st.items[i].ok => ~st.values[i].ok

C7_DecodePerLine == DecodedInStep(jsonl) /\ DecodedInStep(first) /\ DecodedInStep(last)

\* first_n(3) has ended after Ok, Err, Ok, and last_n(3) after the same
C7_Witness ==
    /\ last.done /\ Len(last.values) = 3 /\ Len(first.values) = 3
    /\ first.values[1].ok /\ ~first.values[2].ok /\ first.values[3].ok
    /\ last.values[1].ok /\ ~last.values[2].ok /\ last.values[3].ok
    /\ jsonl.values = first.values

(***************************************************************************)
(* C8.  Once next_line has returned Ok(None), every later call on that     *)
(* reader returns Ok(None).                                                *)
(***************************************************************************)
C8_NoneStaysNone ==
    \A r \in Readers : \A i, j \in 1..Len(rev[r].rets) :
        (i < j /\ rev[r].rets[i] = None) => rev[r].rets[j] = None

\* a reader has emitted a line, returned None after a scan of blank lines,
\* and has been called again
C8_Witness ==
    \E r \in Readers :
        /\ rev[r].pc = "idle" /\ Len(rev[r].rets) >= 3
        /\ rev[r].rets[1] # None
        /\ rev[r].rets[Len(rev[r].rets) - 1] = None
        /\ rev[r].rets[Len(rev[r].rets)] = None
        /\ rev[r].file_pos # Some(0)

(***************************************************************************)
(* C9.  On a source whose lines end in LF or CR LF the reverse reader      *)
(* emits each non-blank line exactly once, complete, without a final CR.   *)
(***************************************************************************)
C9_CrLfOnce ==
    \A r \in Readers :
        (rev[r].made /\ CrLfTerminated(src)) =>
            /\ IsPrefix(RevLines(r), Reverse(NonBlankLines(src)))
            /\ Exhausted(r) => RevLines(r) = Reverse(NonBlankLines(src))

(***************************************************************************)
(* C10.  On a source of valid UTF-8 (here without CR) and for every        *)
(* capacity, the reverse reader emits each non-blank line exactly once,    *)
(* with the characters of the source line and no replacement character.    *)
(***************************************************************************)
C10_Utf8Safe ==
    \A r \in Readers :
        (rev[r].made /\ IsValidUtf8(src) /\ \A i \in 1..Len(src) : src[i] # CR) =>
            /\ IsPrefix(RevLines(r), Reverse(NonBlankLines(src)))
            /\ \A i \in 1..Len(RevLines(r)) : ~HasReplacement(RevLines(r)[i])
            /\ Exhausted(r) => RevLines(r) = Reverse(NonBlankLines(src))

(***************************************************************************)
(* C11.  Readers over their own handles to one unchanging source, with     *)
(* their seek and read steps interleaved: between calls each reader is     *)
(* what it would be after the same number of calls alone (the lines        *)
(* returned, the position, the cursor of its handle, its buffer).          *)
(***************************************************************************)
C11_Independent ==
    \A r \in Readers :
        rev[r].pc = "idle" => rev[r] = alone(rev[r].buf_len, Len(rev[r].rets))

\* both readers stand inside a call at different places of the source, and
\* each has returned a line before
C11_Witness ==
    /\ rev[1].pc = "read" /\ rev[2].pc = "scan"
    /\ rev[1].cursor # rev[2].cursor
    /\ Len(RevLines(1)) = 1 /\ Len(RevLines(2)) = 2

(***************************************************************************)
(* C12.  A next_line call in which a seek or a read fails returns the I/O  *)
(* error, not Ok(None) and not a line: a reader has returned as many       *)
(* errors as the source has failed.                                        *)
(***************************************************************************)
ErrCount(r) == Cardinality({i \in 1..Len(rev[r].rets) : rev[r].rets[i] = Err_io})

\* what the calls that did not fail returned, in order
OkRets(r) == SelectSeq(rev[r].rets, LAMBDA v : v # Err_io)

C12_ErrorSurfaces ==
    io.mode = "fails" =>
        \A r \in Readers : rev[r].made => ErrCount(r) = MaxFaults - io.left

\* the source failed twice, the first time in the first call; the reader
\* returned two errors and a line, and ended with None
C12_Witness ==
    /\ io.mode = "fails" /\ io.left = 0
    /\ Exhausted(1) /\ ErrCount(1) = 2
    /\ rev[1].rets[1] = Err_io
    /\ Len(RevLines(1)) >= 1

(***************************************************************************)
(* C13.  After calls that failed with an I/O error, the calls that do not  *)
(* fail return what the calls of a reader over a source that never fails   *)
(* return: no line is skipped, none is returned twice.                     *)
(***************************************************************************)
C13_RetrySafe ==
    (io.mode = "fails" /\ rev[1].pc = "idle") =>
        OkRets(1) = alone(rev[1].buf_len, Len(OkRets(1))).rets

\* a call returned a line, the next failed, the calls after it returned
\* a second line and None
C13_Witness ==
    /\ io.mode = "fails" /\ Exhausted(1)
    /\ Len(rev[1].rets) >= 4
    /\ rev[1].rets[1] \notin {None, Err_io}
    /\ rev[1].rets[2] = Err_io
    /\ rev[1].rets[3] \notin {None, Err_io}

(***************************************************************************)
(* C14.  A read that returns zero bytes while bytes of the chunk are       *)
(* missing makes next_line fail with an I/O error, and a truncated chunk   *)
(* is never scanned.                                                       *)
(***************************************************************************)
C14_ZeroReadFails ==
    \A r \in Readers : (rev[r].made /\ io.mode = "ends early") =>
        /\ rev[r].pc = "scan" => Len(rev[r].chunk) = rev[r].chunk_size
        /\ ErrCount(r) = MaxFaults - io.left

(***************************************************************************)
(* C15.  A CR that is not followed by LF ends a line for the reverse       *)
(* reader: the reader emits, last first, the non-blank lines of the source *)
(* read with LF, CR LF and bare CR as the three terminators.               *)
(***************************************************************************)
\* the source with each CR LF and each bare CR written as one LF
RECURSIVE CrAsTerminator(_)
CrAsTerminator(s) ==
    IF s = <<>> THEN <<>>
    ELSE IF Head(s) # CR THEN <<Head(s)>> \o CrAsTerminator(Tail(s))
    ELSE IF Len(s) > 1 /\ s[2] = LF THEN <<LF>> \o CrAsTerminator(Tail(Tail(s)))
    ELSE <<LF>> \o CrAsTerminator(Tail(s))

C15_BareCrTerminates ==
    \A r \in Readers :
        Exhausted(r) => RevLines(r) = Reverse(NonBlankLines(CrAsTerminator(src)))

(***************************************************************************)
(* C16.  On a source whose final line has no terminator the first line the *)
(* reverse reader returns is that final line, whole, and it is the last    *)
(* line the forward stream yields; a source of one such line makes both    *)
(* yield that line only, without error.                                    *)
(***************************************************************************)
\* the text after the last LF, trimmed
FinalLine(s) ==
    LET nl == NewlinePositions(s)
        start == IF nl = {} THEN 1 ELSE 1 + CHOOSE i \in nl : \A j \in nl : j <= i
    IN  str_trim(SubSeq(s, start, Len(s)))

HasOpenFinalLine(s) == s # <<>> /\ s[Len(s)] # LF /\ FinalLine(s) # <<>>

C16_OpenFinalLine ==
    LET final == FinalLine(src)
        one_line == NewlinePositions(src) = {}
    IN  (src # <<>> /\ src[Len(src)] # LF /\ final # <<>>) =>
            /\ \A r \in Readers : (rev[r].made /\ rev[r].rets # <<>>) =>
                   /\ rev[r].rets[1] = Some(final)
                   /\ (one_line /\ Len(rev[r].rets) > 1) => rev[r].rets[2] = None
            /\ jsonl.done =>
                   /\ AllOk(jsonl.items)
                   /\ FwdLines # <<>> /\ FwdLines[Len(FwdLines)] = final
                   /\ one_line => Len(FwdLines) = 1

\* a reader of capacity 1 has returned a final line of two bytes or more,
\* read in several chunks, then another line, and None
C16_Witness ==
    /\ HasOpenFinalLine(src) /\ Len(FinalLine(src)) >= 2
    /\ Exhausted(2) /\ rev[2].buf_len = 1
    /\ Len(RevLines(2)) >= 2
    /\ RevLines(2)[1] = FwdLines[Len(FwdLines)]

(***************************************************************************)
(* C17.  On a source of zero bytes the forward stream yields no item, the  *)
(* first next_line call returns None, last_n(n) yields no item for any n,  *)
(* and count returns 0.                                                    *)
(***************************************************************************)
C17_EmptySource ==
    src = <<>> =>
        /\ jsonl.items = <<>>
        /\ jsonl.count \in {None, Some(0)}
        /\ first.items = <<>>
        /\ last.items = <<>> /\ last.pc \in {"none", "seek_end", "stream"}
        /\ \A r \in Readers : \A i \in 1..Len(rev[r].rets) : rev[r].rets[i] = None

\* on the empty source the stream has ended, count has returned, and both
\* reverse readers have been called
C17_Witness ==
    /\ src = <<>> /\ jsonl.done /\ jsonl.count # None
    /\ Len(rev[1].rets) >= 1 /\ Exhausted(2)

(***************************************************************************)
(* C19.  count returns the number of non-blank lines of the source, which  *)
(* is the number of items the forward stream yields on it; a line that is  *)
(* not JSON counts like any other.                                         *)
(***************************************************************************)
C19_Count ==
    phase = "counted" =>
        /\ jsonl.count = Some(Len(NonBlankLines(src)))
        /\ jsonl.count = Some(Len(jsonl.items))

\* count has returned 2 on a source that begins with a blank line and has
\* a line that does not decode
C19_Witness ==
    /\ phase = "counted" /\ jsonl.count = Some(2)
    /\ src[1] = LF
    /\ \E i \in 1..Len(jsonl.values) : ~jsonl.values[i].ok

(***************************************************************************)
(* C18.  On a source that is not empty and holds only terminators and      *)
(* white space, for every capacity, the forward stream, the reverse reader *)
(* and last_n yield no line, and a next_line call returns None after       *)
(* finitely many chunk reads: a scan that does not return either leaves    *)
(* the end of the bytes under scan where it is and lowers the position the *)
(* next chunk ends at, or lowers the end of the bytes under scan.          *)
(***************************************************************************)
OnlyWhitespace(s) == s # <<>> /\ \A i \in 1..Len(s) : s[i] \in {SP, LF, CR}

NoLines ==
    OnlyWhitespace(src) =>
        /\ jsonl.items = <<>> /\ first.items = <<>> /\ last.items = <<>>
        /\ last.pc # "failed"
        /\ \A r \in Readers : \A i \in 1..Len(rev[r].rets) : rev[r].rets[i] = None

\* where the bytes end that a pending call holds or is about to read
ScanEnd(rd) == rd.current_end + Len(rd.accumulated_data)

ScanDescends ==
    \A r \in Readers :
        (OnlyWhitespace(src) /\ rev[r].pc = "scan" /\ rev'[r].pc # "idle") =>
            /\ rev'[r].pc = "seek"
            /\ \/ ScanEnd(rev'[r]) < ScanEnd(rev[r])
               \/ /\ ScanEnd(rev'[r]) = ScanEnd(rev[r])
                  /\ rev'[r].current_end < rev[r].current_end

Occurs(needle, hay) ==
    \E k \in 1..(Len(hay) - Len(needle) + 1) :
        SubSeq(hay, k, k + Len(needle) - 1) = needle

CarriesLines(st) ==
    \A i \in 1..Len(st.values) :
        (st.items[i].ok /\ ~st.values[i].ok) => Occurs(st.items[i].val, st.values[i].msg)

C20_ErrorCarriesLine == CarriesLines(jsonl) /\ CarriesLines(first) /\ CarriesLines(last)

(***************************************************************************)
(* C21.  A line with bytes that are not UTF-8 is emitted with those bytes  *)
(* replaced and is never rejected: no stream yields an error item, no      *)
(* next_line call and no last_n call fails, and the forward stream and     *)
(* first_n yield the lines of the lossily decoded source.                  *)
(***************************************************************************)
C21_MalformedReplaced ==
    /\ AllOk(jsonl.items) /\ AllOk(first.items) /\ AllOk(last.items)
    /\ last.pc # "failed"
    /\ \A r \in Readers : ErrCount(r) = 0
    /\ jsonl.done => FwdLines = NonBlankLines(src)
    /\ (first.made /\ first.done) =>
           OkLines(first.items) = FirstK(NonBlankLines(src), first.n)

(***************************************************************************)
(* C22.  Between the calls of a reader that is initialized, file_pos is at *)
(* most the size of the source, and after a call it is at most what it was *)
(* before that call.                                                       *)
(***************************************************************************)
\* file_pos of the reader before the last of its calls; the readers of
\* SpecConcurrent are between calls what they are alone
FilePosBeforeCall(r) == alone(rev[r].buf_len, Len(rev[r].rets) - 1).file_pos

C22_FilePosMonotone ==
    \A r \in Readers :
        (rev[r].pc = "idle" /\ rev[r].rets # <<>> /\ rev[r].file_pos # None) =>
            /\ rev[r].file_pos[1] <= Len(src)
            /\ FilePosBeforeCall(r) # None =>
                   rev[r].file_pos[1] <= FilePosBeforeCall(r)[1]

(***************************************************************************)
(* C23.  A chunk the reverse reader reads has the length min(capacity,     *)
(* current position), the reader has sought to (current position -         *)
(* length) before it reads, and the bytes asked for lie inside the source: *)
(* the chunk ends at or before the end of the source.                      *)
(***************************************************************************)
C23_ChunkInsideSource ==
    \A r \in Readers :
        rev[r].pc = "read" =>
            /\ rev[r].chunk_size = Min(rev[r].buf_len, rev[r].current_end)
            /\ rev[r].chunk_start = rev[r].current_end - rev[r].chunk_size
            /\ rev[r].cursor = rev[r].chunk_start + Len(rev[r].chunk)
            /\ rev[r].chunk_start >= 0
            /\ rev[r].chunk_start + rev[r].chunk_size <= Len(src)

(***************************************************************************)
(* C24.  When a scan discards a blank line and the bytes held still have a *)
(* line boundary before it (an earlier terminator, or the start of the     *)
(* source), the reader goes on in the bytes it holds: the step is followed *)
(* by no seek and no read.                                                 *)
(***************************************************************************)
\* the lines of the bytes reader r holds when it scans
HeldLines(r) == str_lines(from_utf8_lossy(rev[r].chunk \o rev[r].accumulated_data))

\* the scan of reader r discards a blank last line, and the line before it
\* is bounded inside the bytes held
DiscardsBlankWithBoundary(r) ==
    LET lines == HeldLines(r)
        n == Len(lines)
    IN  /\ rev[r].pc = "scan"
        /\ n > 1 /\ str_trim(lines[n]) = <<>>
        /\ n > 2 \/ rev[r].chunk_start = 0

NoFetchAfterBlank ==
    \A r \in Readers :
        DiscardsBlankWithBoundary(r) => rev'[r].pc \notin {"seek", "read"}

C24_ScanGoesOn == [][NoFetchAfterBlank]_vars

(***************************************************************************)
(* C25.  A reader issues no I/O before its first next_line call; over      *)
(* calls that succeed it asks for the size of the source once, in the      *)
(* first call, and keeps the answer; on a source of zero bytes it never    *)
(* reaches a seek to a chunk or a read.                                    *)
(***************************************************************************)
C25_SizeAskedOnce ==
    \A r \in Readers : rev[r].made =>
        /\ (rev[r].rets = <<>> /\ rev[r].pc = "idle") =>
               /\ rev[r].size_queries = 0 /\ rev[r].cursor = 0
               /\ rev[r].file_size = None /\ rev[r].file_pos = None
        /\ (rev[r].rets # <<>> \/ rev[r].pc \notin {"idle", "initialize"}) =>
               rev[r].size_queries = 1 /\ rev[r].file_size = Some(Len(src))
        /\ src = <<>> => rev[r].pc \in {"idle", "initialize"} /\ rev[r].cursor = 0

\* a reader has been called three times or more, has returned two lines
\* and then None, and has asked for the size once, as has the reader that
\* was called before it
C25_Witness ==
    /\ Exhausted(2) /\ Len(rev[2].rets) >= 3 /\ Len(RevLines(2)) >= 2
    /\ rev[2].size_queries = 1
    /\ Len(rev[1].rets) = MaxCalls /\ rev[1].size_queries = 1

(***************************************************************************)
(* C26.  Over a source that answers reads with short counts the reader     *)
(* reads again until the chunk is full: the bytes it has read so far are   *)
(* the bytes of the source from the start of the chunk on, in file order,  *)
(* a chunk that is scanned is the one a full read gives, and between calls *)
(* the reader is what it is over a source that always reads in full.       *)
(***************************************************************************)
C26_ShortReads ==
    \A r \in Readers : rev[r].made =>
        /\ rev[r].pc = "read" => rev[r].chunk = ReadAt(rev[r].chunk_start, Len(rev[r].chunk))
        /\ rev[r].pc = "scan" => rev[r].chunk = ReadAt(rev[r].chunk_start, rev[r].chunk_size)
        /\ rev[r].pc = "idle" => rev[r] = alone(rev[r].buf_len, Len(rev[r].rets))

\* a read returned fewer bytes than asked for, with bytes of the source
\* left to read, in a call after the one that returned the first line
C26_Witness ==
    /\ io.mode = "short" /\ rev[1].pc = "read"
    /\ Len(rev[1].chunk) > 0 /\ Len(rev[1].chunk) < rev[1].chunk_size
    /\ rev[1].cursor < Len(src)
    /\ Len(RevLines(1)) >= 1

(***************************************************************************)
(* C27.  In a first_n(n) stream `remaining` is n less the number of lines  *)
(* emitted, so it starts at n and falls by one with each line; no poll     *)
(* raises it; the stream ends only with `remaining` at 0 or the source     *)
(* read to its end; and a poll after the end returns None again and does   *)
(* not read from the source.                                               *)
(***************************************************************************)
LinesEmitted(st) == Cardinality({i \in 1..Len(st.items) : st.items[i].ok})

RemainingCounts ==
    first.made =>
        /\ first.remaining = first.n - LinesEmitted(first)
        /\ first.remaining >= 0
        /\ first.done => (first.remaining = 0 \/ first.cursor = Len(src))

RemainingFalls ==
    first.made =>
        /\ first'.remaining <= first.remaining
        /\ first.done =>
               /\ first'.done /\ first'.items = first.items
               /\ first'.cursor = first.cursor

C27_Remaining == []RemainingCounts /\ [][RemainingFalls]_vars

\* first_n(1) has ended after one line with bytes of the source unread, and
\* has been polled to the bound after that
C27_Witness ==
    /\ first.made /\ first.n = 1 /\ first.done /\ first.remaining = 0
    /\ Len(first.items) = 1 /\ first.cursor < Len(src)
    /\ first.polls = MaxPolls

(***************************************************************************)
(* C28.  The lines last_n(n) yields are the lines the first n next_line    *)
(* calls of a RevBufReader over the same source return, in the same order  *)
(* (a reader that has returned None returns None ever after, so these are  *)
(* the first min(n, T) of its T lines).                                    *)
(***************************************************************************)
\* the lines among what the first k calls of a reader made by
\* RevBufReader::new return
FirstRevLines(k) ==
    LET rets == alone(DEFAULT_BUF_SIZE, k).rets
        some == SelectSeq(rets, LAMBDA v : v # None)
    IN  [i \in 1..Len(some) |-> some[i][1]]

C28_LastNIsRevPrefix ==
    (last.made /\ last.done) => OkLines(last.items) = FirstRevLines(last.n)

(***************************************************************************)
(* C29.  On a source longer than one chunk of last_n, whatever byte the    *)
(* chunk boundary falls on, last_n(n) yields each of the last n non-blank  *)
(* lines once and whole, as the forward reader yields it: the last         *)
(* min(n, T) non-blank lines of the source, the last line first.           *)
(***************************************************************************)
C29_StraddlingLine ==
    (IsLarge(src) /\ last.made /\ last.done) =>
        /\ AllOk(last.items)
        /\ OkLines(last.items) = FirstK(Reverse(NonBlankLines(src)), last.n)

(***************************************************************************)
(* C30.  Once a seek of last_n has failed, or the read of a chunk has      *)
(* failed or has ended before the chunk was full, last_n has returned an   *)
(* error: there is no stream, and no line that was found before reaches    *)
(* the caller.                                                             *)
(***************************************************************************)
C30_LastNFails ==
    (last.made /\ io.mode \in {"fails", "ends early"} /\ io.left < MaxFaults) =>
        /\ last.pc = "failed"
        /\ last.lines = <<>> /\ last.items = <<>> /\ ~last.done

\* last_n(n), n >= 2, over a source longer than one chunk has read its
\* first chunk, which holds the last line, and has failed in the second
C30_Witness ==
    /\ last.pc = "failed" /\ last.n >= 2
    /\ IsLarge(src)
    /\ last.current_pos > 0 /\ last.current_pos < last.file_size

(***************************************************************************)
(* C31.  RevBufReader::buffer() is empty in every state of a reader:       *)
(* before its first call, inside a call and after any number of calls,     *)
(* pos and cap are equal.                                                  *)
(***************************************************************************)
C31_BufferEmpty ==
    \A r \in Readers : rev[r].made =>
        rev[r].pos = rev[r].cap /\ buffer(rev[r]) = <<>>

\* a reader of capacity 3 has returned two lines and then None
C31_Witness == Exhausted(1) /\ rev[1].buf_len = 3 /\ Len(RevLines(1)) >= 2

(***************************************************************************)
(* C32.  A poll of the forward stream or of a first_n stream that skips    *)
(* blank lines does so without calling itself: the poll_next calls are     *)
(* never nested more than one deep, however many blank lines are skipped.  *)
(***************************************************************************)
C32_ConstantDepth == jsonl.depth <= 1 /\ first.depth <= 1

(***************************************************************************)
(* C33.  When a next_line call has returned a line, file_pos is the offset *)
(* at which the bytes of that line begin in the source: 0 or the offset    *)
(* just after a terminator, and the line that begins there is the line     *)
(* returned.                                                               *)
(***************************************************************************)
\* the line whose bytes begin at offset p of the source, decoded and trimmed
LineAt(p) ==
    LET ls == str_lines(from_utf8_lossy(SubSeq(src, p + 1, Len(src))))
    IN  IF ls = <<>> THEN <<>> ELSE str_trim(ls[1])

C33_FilePosAtLineStart ==
    \A r \in Readers :
        (rev[r].pc = "idle" /\ rev[r].rets # <<>>
            /\ rev[r].rets[Len(rev[r].rets)] \notin {None, Err_io}) =>
            LET p == rev[r].file_pos[1]
            IN  /\ p <= Len(src)
                /\ p = 0 \/ src[p] = LF
                /\ LineAt(p) = rev[r].rets[Len(rev[r].rets)][1]

(***************************************************************************)
(* C34.  For every capacity, 0 included, a next_line call that is awaited  *)
(* returns: a reader that stands inside a call is between calls again      *)
(* later.                                                                  *)
(***************************************************************************)
C34_CallReturns ==
    \A r \in Readers : (rev[r].pc # "idle") ~> (rev[r].pc = "idle")

(***************************************************************************)
(* C35.  Dropping pending next_line calls loses no line and repeats none:  *)
(* whatever calls were dropped, at a seek or at a read, the calls that     *)
(* returned have returned what the calls of a reader that is never         *)
(* dropped return, in the same order.                                      *)
(***************************************************************************)
C35_CancelSafe ==
    \A r \in Readers :
        (rev[r].made /\ rev[r].pc = "idle") =>
            rev[r].rets = alone(rev[r].buf_len, Len(rev[r].rets)).rets

\* the caller has dropped MaxCancels pending calls of a reader of capacity
\* 1; the reader has returned two lines or more and then None
C35_Witness ==
    /\ io.mode = "cancels" /\ io.left = 0
    /\ Exhausted(1) /\ rev[1].buf_len = 1
    /\ Len(RevLines(1)) >= 2

(***************************************************************************)
(* C36.  Once last_n has returned its stream, no poll of the stream seeks  *)
(* or reads the source: the cursor of the source and the position of       *)
(* last_n stay where they are; a poll answers at once, with the next line  *)
(* that was collected or with the end of the stream; every item is Ok.     *)
(***************************************************************************)
StreamIsReady ==
    last.pc = "stream" =>
        /\ AllOk(last.items)
        /\ last.done => last.lines = <<>>

StreamPollsNoIo ==
    last.pc = "stream" =>
        /\ last'.pc = "stream"
        /\ last'.cursor = last.cursor /\ last'.current_pos = last.current_pos
        /\ \/ last'.items = last.items /\ last'.lines = last.lines
           \/ /\ last.lines # <<>>
              /\ last'.items = Append(last.items, OkItem(Head(last.lines)))
              /\ last'.lines = Tail(last.lines)

C36_StreamNoIo == []StreamIsReady /\ [][StreamPollsNoIo]_vars

\* last_n(3) over a source longer than one chunk has read two chunks and
\* its stream has yielded two lines and ended
C36_Witness ==
    /\ last.pc = "stream" /\ last.done /\ last.n = 3
    /\ IsLarge(src) /\ last.current_pos = 0
    /\ Len(last.items) = 2

(***************************************************************************)
(* C37.  A poll of a first_n(n) stream that meets an I/O error of the      *)
(* underlying reader yields one Err item, leaves `remaining` as it is and  *)
(* does not end the stream; the stream never yields more than n lines.     *)
(***************************************************************************)
AtMostNLines == first.made => LinesEmitted(first) <= first.n

ErrorKeepsStream ==
    (first.made /\ first'.items # first.items
        /\ ~first'.items[Len(first'.items)].ok) =>
        /\ first'.items = Append(first.items, ErrItem("IO error"))
        /\ first'.remaining = first.remaining
        /\ ~first'.done

C37_ErrorItem == []AtMostNLines /\ [][ErrorKeepsStream]_vars

\* first_n(2) has yielded a line, two errors of a reader that failed, a
\* second line, and has ended
C37_Witness ==
    /\ first.made /\ first.n = 2 /\ first.done
    /\ io.mode = "fails" /\ io.left = 0
    /\ Len(first.items) = 4
    /\ first.items[1].ok /\ ~first.items[2].ok /\ ~first.items[3].ok /\ first.items[4].ok

(***************************************************************************)
(* C38.  last_n reads a chunk only while it has found fewer than n lines   *)
(* and has not reached offset 0; the chunk it reads is [new_pos,           *)
(* current_pos), it ends where the chunk before it began, and it begins    *)
(* lower: the chunks are contiguous and descending, and no byte is read    *)
(* twice.                                                                  *)
(***************************************************************************)
ChunkOnlyWhenNeeded ==
    last.pc = "chunk" =>
        /\ last.current_pos > 0 /\ Len(last.lines_found) < last.n
        /\ last.current_pos <= last.file_size

ChunksDescend ==
    (last.pc = "chunk" /\ last'.pc \in {"chunk", "stream"}) =>
        /\ last'.current_pos = last.current_pos - Min(chunk_size, last.current_pos)
        /\ last'.current_pos < last.current_pos
        /\ last'.cursor = last.current_pos

C38_ChunksContiguous == []ChunkOnlyWhenNeeded /\ [][ChunksDescend]_vars

\* last_n(2) over a source longer than one chunk has read two chunks, the
\* second one down to offset 0, and has found two lines
C38_Witness ==
    /\ last.pc = "stream" /\ last.n = 2 /\ IsLarge(src)
    /\ last.current_pos = 0 /\ last.cursor = last.file_size - chunk_size
    /\ Len(last.lines_found) = 2

====
